---- MODULE Spec2Model ----
(***************************************************************************)
(* Model of task-4/aws_list_resources.py: a command-line tool that lists   *)
(* the resources of one AWS service in one region and prints them as a     *)
(* text table.                                                             *)
(*                                                                         *)
(* A Python string is modelled as a Text: a sequence of tokens, each token *)
(* a non-empty TLA+ string, the string being the concatenation of its      *)
(* tokens.  Strings the program inspects character by character (the       *)
(* service name, whitespace around the region) are tokenised one character *)
(* per token.  A Python value is a record tagged by its type in field py.  *)
(***************************************************************************)
EXTENDS Integers, Sequences, FiniteSets, TLC

\* ------------------------------------------------------------------ bounds

\* Most pages one paginated listing returns.
MaxPages == 2
\* Most items (instances, buckets, tables, ...) one listing returns in all.
MaxItems == 2
\* Most rows and columns of the tables print_table is checked on alone.
MaxRows == 2
MaxCols == 2

\* ------------------------------------------------------------ Python text

Max(a, b) == IF a >= b THEN a ELSE b

RECURSIVE TextLen(_)
\* len(s) of a Text
TextLen(t) == IF t = <<>> THEN 0 ELSE Len(Head(t)) + TextLen(Tail(t))

\* c * n for a one-character string c
Repeat(c, n) == [i \in 1..n |-> c]

\* str.ljust(width): pad with spaces on the right, never truncate
Ljust(t, width) == t \o Repeat(" ", Max(0, width - TextLen(t)))

RECURSIVE Join(_, _)
\* sep.join(parts)
Join(sep, parts) ==
  IF parts = <<>> THEN <<>>
  ELSE IF Len(parts) = 1 THEN parts[1]
  ELSE parts[1] \o sep \o Join(sep, Tail(parts))

Whitespace == {" ", "\t", "\n"}

RECURSIVE LStrip(_)
LStrip(t) == IF t # <<>> /\ Head(t) \in Whitespace THEN LStrip(Tail(t)) ELSE t

RECURSIVE RStrip(_)
RStrip(t) ==
  IF t # <<>> /\ t[Len(t)] \in Whitespace THEN RStrip(SubSeq(t, 1, Len(t) - 1)) ELSE t

\* str.strip(): drop leading and trailing whitespace
Strip(t) == RStrip(LStrip(t))

UpperChars == <<"A","B","C","D","E","F","G","H","I","J","K","L","M",
                "N","O","P","Q","R","S","T","U","V","W","X","Y","Z">>
LowerChars == <<"a","b","c","d","e","f","g","h","i","j","k","l","m",
                "n","o","p","q","r","s","t","u","v","w","x","y","z">>

LowerChar(c) ==
  IF \E i \in 1..Len(UpperChars) : UpperChars[i] = c
  THEN LowerChars[CHOOSE i \in 1..Len(UpperChars) : UpperChars[i] = c]
  ELSE c

\* str.lower() of a Text tokenised by character
Lower(t) == [i \in 1..Len(t) |-> LowerChar(t[i])]

\* Code-point order of the characters the service keys are made of.
CharOrder == <<"2","3">> \o LowerChars
Ord(c) == CHOOSE i \in 1..Len(CharOrder) : CharOrder[i] = c

RECURSIVE StrLess(_, _)
\* s < t for Python strings tokenised by character
StrLess(s, t) ==
  IF t = <<>> THEN FALSE
  ELSE IF s = <<>> THEN TRUE
  ELSE IF Head(s) = Head(t) THEN StrLess(Tail(s), Tail(t))
  ELSE Ord(Head(s)) < Ord(Head(t))

RECURSIVE Sorted(_)
\* sorted(keys) of a set of strings
Sorted(S) ==
  IF S = {} THEN <<>>
  ELSE LET m == CHOOSE x \in S : \A y \in S \ {x} : StrLess(x, y)
       IN  <<m>> \o Sorted(S \ {m})

Digits == <<"0","1","2","3","4","5","6","7","8","9">>

RECURSIVE IntText(_)
\* str(n) for n >= 0
IntText(n) ==
  IF n < 10 THEN <<Digits[n + 1]>> ELSE IntText(n \div 10) \o <<Digits[(n % 10) + 1]>>

\* a number zero-padded to w digits, as strftime's %Y, %m, %d, %H, %M, %S
Padded(n, w) == Repeat("0", Max(0, w - Len(IntText(n)))) \o IntText(n)

\* ---------------------------------------------------------- Python values

PyNone == [py |-> "None"]
PyStr(t) == [py |-> "str", s |-> t]
PyInt(n) == [py |-> "int", n |-> n]
PyDatetime(y, mo, d, h, mi, sec) ==
  [py |-> "datetime", y |-> y, mo |-> mo, d |-> d, h |-> h, mi |-> mi, sec |-> sec]
\* a dict is the set of its (key, value) items, a list the sequence of its elements
PyDict(items) == [py |-> "dict", items |-> items]
PyList(elems) == [py |-> "list", elems |-> elems]

HasKey(d, k) == \E it \in d.items : it[1] = k

\* d.get(k, default)
Get(d, k, default) ==
  IF HasKey(d, k) THEN (CHOOSE it \in d.items : it[1] = k)[2] ELSE default

\* bool(v)
Truthy(v) ==
  CASE v.py = "None" -> FALSE
    [] v.py = "str" -> v.s # <<>>
    [] v.py = "int" -> v.n # 0
    [] v.py = "dict" -> v.items # {}
    [] v.py = "list" -> v.elems # <<>>
    [] OTHER -> TRUE

\* v or w
Or(v, w) == IF Truthy(v) THEN v ELSE w

\* str(v)
Str(v) ==
  CASE v.py = "None" -> <<"None">>
    [] v.py = "str" -> v.s
    [] v.py = "int" -> IntText(v.n)
    [] OTHER -> <<"<object>">>

\* dt.strftime("%Y-%m-%d %H:%M:%S")
strftime(dt) ==
  Padded(dt.y, 4) \o <<"-">> \o Padded(dt.mo, 2) \o <<"-">> \o Padded(dt.d, 2)
    \o <<" ">> \o Padded(dt.h, 2) \o <<":">> \o Padded(dt.mi, 2)
    \o <<":">> \o Padded(dt.sec, 2)

\* human_ts: only a datetime has strftime; anything else raises and falls
\* back to str(dt)
human_ts(dt) == IF dt.py = "datetime" THEN strftime(dt) ELSE Str(dt)

\* ------------------------------------------------------------- exceptions

\* The classes an exception is an instance of, besides its own.
Ancestors(type) ==
  CASE type \in {"NoCredentialsError", "PartialCredentialsError",
                 "EndpointConnectionError", "UnknownServiceError",
                 "NoRegionError", "ParamValidationError", "ProfileNotFound",
                 "ReadTimeoutError"}
         -> {"BotoCoreError", "Exception", "BaseException"}
    [] type \in {"ClientError", "IndexError", "BrokenPipeError"}
         -> {"Exception", "BaseException"}
    [] type \in {"KeyboardInterrupt"} -> {"BaseException"}
    [] OTHER -> {"BaseException"}

\* isinstance(e, cls), as an except clause tests it
IsInstance(e, cls) == e.type = cls \/ cls \in Ancestors(e.type)

NoException == [type |-> "none"]
Exc(type, text) == [type |-> type, str |-> text]
\* a botocore ClientError carries the provider's parsed error response
ClientErrorExc(response, text) ==
  [type |-> "ClientError", str |-> text, response |-> response]

\* ---------------------------------------------------------------- renderer

\* print_header(title): the three lines it prints
print_header(title) ==
  << Repeat("=", TextLen(title)), title, Repeat("=", TextLen(title)) >>

NoResourcesLine == <<"(no resources found)">>

\* one pass of "for i, col in enumerate(r): widths[i] = max(widths[i], len(col))"
WidthsAfterRow(widths, r) ==
  [i \in 1..Len(widths) |->
     IF i <= Len(r) THEN Max(widths[i], TextLen(r[i])) ELSE widths[i]]

RECURSIVE WidthsFrom(_, _)
WidthsFrom(widths, rows) ==
  IF rows = <<>> THEN widths
  ELSE WidthsFrom(WidthsAfterRow(widths, Head(rows)), Tail(rows))

\* widths taken from the headers alone
ColumnWidthsOfHeaders(rows, headers) == [i \in 1..Len(headers) |-> TextLen(headers[i])]

\* the column widths print_table computes
ColumnWidths(rows, headers) ==
  WidthsFrom([i \in 1..Len(headers) |-> TextLen(headers[i])], rows)

HeaderLine(headers, widths) ==
  Join(<<" | ">>, [i \in 1..Len(headers) |-> Ljust(headers[i], widths[i])])

SepLine(headers, widths) ==
  Join(<<"-+-">>, [i \in 1..Len(headers) |-> Repeat("-", widths[i])])

RowLine(r, headers, widths) ==
  Join(<<" | ">>, [i \in 1..Len(headers) |-> Ljust(r[i], widths[i])])

\* print_table(rows, headers): the lines it prints and the exception it ends
\* with, if any.  widths[i] raises IndexError for a row longer than the
\* headers, before anything is printed; r[i] raises it for a shorter row,
\* when that row's line is built.
print_table(rows, headers) ==
  IF rows = <<>> THEN [lines |-> <<NoResourcesLine>>, exc |-> NoException]
  ELSE IF \E k \in 1..Len(rows) : Len(rows[k]) > Len(headers)
  THEN [lines |-> <<>>,
        exc |-> Exc("IndexError", <<"list index out of range">>)]
  ELSE LET widths == ColumnWidths(rows, headers)
           short == {k \in 1..Len(rows) : Len(rows[k]) < Len(headers)}
           stop == IF short = {} THEN Len(rows) + 1
                   ELSE CHOOSE k \in short : \A j \in short : k <= j
       IN  [lines |-> << HeaderLine(headers, widths), SepLine(headers, widths) >>
                        \o [k \in 1..(stop - 1) |-> RowLine(rows[k], headers, widths)],
            exc |-> IF short = {} THEN NoException
                    ELSE Exc("IndexError", <<"list index out of range">>)]

\* ------------------------------------------------- provider (boto3) values

S(tok) == PyStr(<<tok>>)
D(items) == PyDict(items)
EmptyStr == PyStr(<<>>)
EmptyDict == PyDict({})
EmptyList == PyList(<<>>)

\* every sequence over S of length at most n
SeqsUpTo(set, n) == UNION {[1..k -> set] : k \in 0..n}

AccessDeniedResponse ==
  D({<<"Error", D({<<"Code", S("AccessDeniedException")>>,
                   <<"Message", S("User is not authorized")>>})>>})
NotFoundResponse ==
  D({<<"Error", D({<<"Code", S("ResourceNotFoundException")>>,
                   <<"Message", S("Requested resource not found")>>})>>})

\* ClientError: the provider answered the request with an error response:
\* a denial, a resource that no longer exists, a response naming no error.
ClientErrors ==
  { ClientErrorExc(AccessDeniedResponse, <<"An error occurred (AccessDeniedException)">>),
    ClientErrorExc(NotFoundResponse, <<"An error occurred (ResourceNotFoundException)">>),
    ClientErrorExc(EmptyDict, <<"An error occurred (Unknown)">>) }

KeyboardInterrupt == Exc("KeyboardInterrupt", <<>>)
NoCredentialsError == Exc("NoCredentialsError", <<"Unable to locate credentials">>)
ParamValidationError ==
  Exc("ParamValidationError", <<"Parameter validation failed">>)

\* What a call into boto3 may raise instead of returning.
ProviderErrors ==
  ClientErrors \cup
  { NoCredentialsError,
    Exc("PartialCredentialsError", <<"Partial credentials found">>),
    Exc("EndpointConnectionError", <<"Could not connect to the endpoint URL">>),
    Exc("UnknownServiceError", <<"Unknown service">>),
    ParamValidationError,
    Exc("ReadTimeoutError", <<"Read timeout on endpoint URL">>),
    KeyboardInterrupt }

\* What boto3.Session(...) may raise.
SessionErrors ==
  { Exc("NoRegionError", <<"You must specify a region.">>),
    Exc("ProfileNotFound", <<"The config profile could not be found">>),
    KeyboardInterrupt }

\* What a write to standard output may raise.
PrintErrors ==
  { Exc("BrokenPipeError", <<"[Errno 32] Broken pipe">>), KeyboardInterrupt }

Ec2Instances ==
  { D({ <<"InstanceId", S("i-1")>>, <<"InstanceType", S("t3.micro")>>,
        <<"State", D({<<"Name", S("running")>>})>>,
        <<"Placement", D({<<"AvailabilityZone", S("us-east-1a")>>})>>,
        <<"LaunchTime", PyDatetime(2024, 1, 2, 3, 4, 5)>>,
        <<"Tags", PyList(<< D({<<"Key", S("env")>>, <<"Value", S("prod")>>}),
                            D({<<"Key", S("Name")>>, <<"Value", S("web")>>}),
                            D({<<"Key", S("Name")>>, <<"Value", S("db")>>}) >>)>> }),
    D({ <<"InstanceId", S("i-2")>>, <<"State", PyNone>>, <<"Tags", PyNone>> }),
    EmptyDict }

\* describe_instances pages holding at most n instances
Ec2Pages(n) ==
  {EmptyDict}
  \cup { D({<<"Reservations", PyList(<< D({<<"Instances", PyList(is)>>}) >>)>>}) :
           is \in SeqsUpTo(Ec2Instances, n) }
  \cup { D({<<"Reservations",
              PyList(<< D({<<"Instances", PyList(<<i1>>)>>}), EmptyDict,
                        D({<<"Instances", PyList(<<i2>>)>>}) >>)>>}) :
           <<i1, i2>> \in {p \in Ec2Instances \X Ec2Instances : n >= 2} }

DbInstances ==
  { D({ <<"DBInstanceIdentifier", S("db-1")>>, <<"Engine", S("postgres")>>,
        <<"DBInstanceClass", S("db.t3.micro")>>,
        <<"DBInstanceStatus", S("available")>>,
        <<"Endpoint", D({<<"Address", S("db-1.rds.amazonaws.com")>>})>>,
        <<"InstanceCreateTime", PyDatetime(2023, 12, 31, 23, 59, 0)>> }),
    D({ <<"DBInstanceIdentifier", S("db-2")>>, <<"DBInstanceStatus", S("creating")>>,
        <<"Endpoint", PyNone>> }) }

RdsPages(n) ==
  {EmptyDict} \cup { D({<<"DBInstances", PyList(dbs)>>}) : dbs \in SeqsUpTo(DbInstances, n) }

LambdaFunctions ==
  { D({ <<"FunctionName", S("fn-1")>>, <<"Runtime", S("python3.12")>>,
        <<"Version", S("$LATEST")>>,
        <<"LastModified", S("2024-05-06T07:08:09.000+0000")>> }),
    D({ <<"FunctionName", S("fn-2")>> }) }

LambdaPages(n) ==
  {EmptyDict} \cup { D({<<"Functions", PyList(fns)>>}) : fns \in SeqsUpTo(LambdaFunctions, n) }

Buckets ==
  { D({ <<"Name", S("b1")>>, <<"CreationDate", PyDatetime(2022, 10, 9, 8, 7, 6)>> }),
    D({ <<"Name", S("b2")>> }),
    D({ <<"CreationDate", PyDatetime(2022, 10, 9, 8, 7, 6)>> }) }

\* list_buckets responses holding at most n buckets; a bucket is listed once
ListBucketsResponses(n) ==
  {EmptyDict}
  \cup { D({<<"Buckets", PyList(bs)>>}) :
           bs \in {q \in SeqsUpTo(Buckets, n) :
                     \A i, j \in DOMAIN q : q[i] = q[j] => i = j} }

\* get_bucket_location responses; the provider reports us-east-1 as None
LocationResponses ==
  { D({<<"LocationConstraint", PyNone>>}),
    D({<<"LocationConstraint", S("eu-west-1")>>}),
    D({<<"LocationConstraint", S("ap-south-1")>>}) }

\* the name of the i-th table of the account; a table is listed once
TableName(i) == PyStr(<<"table-">> \o IntText(i))

\* list_tables pages that follow `listed` tables and hold at most n more
ListTablesPages(listed, n) ==
  {EmptyDict}
  \cup { D({<<"TableNames", PyList([i \in 1..k |-> TableName(listed + i)])>>}) :
           k \in 0..n }

DescribeTableResponses ==
  { D({<<"Table", D({ <<"TableStatus", S("ACTIVE")>>, <<"ItemCount", PyInt(12)>>,
                      <<"TableSizeBytes", PyInt(340)>> })>>}),
    D({<<"Table", EmptyDict>>}) }

\* ---------------------------------------------------------- row builders

\* the text of a str value
Cell(v) == v.s

RECURSIVE Concat(_)
Concat(seqs) == IF seqs = <<>> THEN <<>> ELSE Head(seqs) \o Concat(Tail(seqs))

\* the "Name" tag lookup of list_ec2: the first tag whose Key is "Name"
NameTag(inst) ==
  LET tags == Or(Get(inst, "Tags", EmptyList), EmptyList).elems
      hits == {i \in 1..Len(tags) : Get(tags[i], "Key", PyNone) = S("Name")}
  IN  IF hits = {} THEN EmptyStr
      ELSE Get(tags[CHOOSE i \in hits : \A j \in hits : i <= j], "Value", EmptyStr)

Ec2Row(inst) ==
  << Cell(Get(inst, "InstanceId", EmptyStr)),
     Cell(Get(Or(Get(inst, "State", PyNone), EmptyDict), "Name", EmptyStr)),
     Cell(Get(inst, "InstanceType", EmptyStr)),
     Cell(Get(Or(Get(inst, "Placement", PyNone), EmptyDict), "AvailabilityZone", EmptyStr)),
     human_ts(Get(inst, "LaunchTime", PyNone)),
     Cell(NameTag(inst)) >>

\* the rows list_ec2 appends for one page: reservations, then instances
Ec2PageRows(page) ==
  LET rs == Get(page, "Reservations", EmptyList).elems
  IN  Concat([k \in 1..Len(rs) |->
        LET is == Get(rs[k], "Instances", EmptyList).elems
        IN  [j \in 1..Len(is) |-> Ec2Row(is[j])]])

RdsRow(db) ==
  << Cell(Get(db, "DBInstanceIdentifier", EmptyStr)),
     Cell(Get(db, "Engine", EmptyStr)),
     Cell(Get(db, "DBInstanceClass", EmptyStr)),
     Cell(Get(db, "DBInstanceStatus", EmptyStr)),
     Cell(Get(Or(Get(db, "Endpoint", PyNone), EmptyDict), "Address", EmptyStr)),
     human_ts(Get(db, "InstanceCreateTime", PyNone)) >>

RdsPageRows(page) ==
  LET dbs == Get(page, "DBInstances", EmptyList).elems
  IN  [j \in 1..Len(dbs) |-> RdsRow(dbs[j])]

LambdaRow(fn) ==
  << Cell(Get(fn, "FunctionName", EmptyStr)),
     Cell(Get(fn, "Runtime", EmptyStr)),
     Cell(Get(fn, "Version", EmptyStr)),
     Cell(Get(fn, "LastModified", EmptyStr)) >>

LambdaPageRows(page) ==
  LET fns == Get(page, "Functions", EmptyList).elems
  IN  [j \in 1..Len(fns) |-> LambdaRow(fns[j])]

\* the location as reported, without the us-east-1 default
BucketRegionRaw(resp) == Get(resp, "LocationConstraint", PyNone)

\* bucket_region = loc or "us-east-1"
BucketRegion(resp) == Or(Get(resp, "LocationConstraint", PyNone), S("us-east-1"))

S3Row(b, bucket_region) ==
  << Cell(Get(b, "Name", PyNone)), Cell(bucket_region),
     human_ts(Get(b, "CreationDate", PyNone)) >>

\* the row of a table whose describe_table call returned resp
DdbRow(table, resp) ==
  LET desc == Get(resp, "Table", PyNone)
  IN  << Cell(table),
         Cell(Get(desc, "TableStatus", EmptyStr)),
         Str(Get(desc, "ItemCount", EmptyStr)),
         Str(Get(desc, "TableSizeBytes", EmptyStr)) >>

\* a denied row that leaves out the size cell
DdbDeniedRowShort(table) == << Cell(table), <<"(access denied)">>, <<>> >>

\* the row of a table whose describe_table call raised ClientError
DdbDeniedRow(table) == << Cell(table), <<"(access denied)">>, <<>>, <<>> >>

\* a per-item try that catches every Exception
ItemExceptBroad == "Exception"
\* a per-item try that catches the wrong class
ItemExceptWrong == "ParamValidationError"

\* the exception class the per-bucket try of list_s3 catches
S3ItemExcept == "ClientError"
\* the exception class the per-table try of list_dynamodb catches
DdbItemExcept == "ClientError"

\* ------------------------------------------------------------- dispatch

KeyEc2 == <<"e","c","2">>
KeyS3 == <<"s","3">>
KeyDynamodb == <<"d","y","n","a","m","o","d","b">>
KeyRds == <<"r","d","s">>
KeyLambda == <<"l","a","m","b","d","a">>

SUPPORTED ==
  (KeyEc2 :> "list_ec2") @@ (KeyS3 :> "list_s3") @@ (KeyDynamodb :> "list_dynamodb")
    @@ (KeyRds :> "list_rds") @@ (KeyLambda :> "list_lambda")

\* ', '.join(sorted(SUPPORTED.keys()))
SupportedList == Join(<<", ">>, Sorted(DOMAIN SUPPORTED))

\* the normalisation without its lower(): a case-sensitive lookup
NormalizeServiceNoLower(raw) == Strip(raw)

\* service = args.service.lower().strip()
NormalizeService(raw) == Strip(Lower(raw))
\* region = args.region.strip()
NormalizeRegion(raw) == Strip(raw)

\* the title each handler passes to print_header
Title(h, reg) ==
  CASE h = "list_ec2" -> <<"EC2 Instances in ">> \o reg
    [] h = "list_s3" -> <<"S3 Buckets in ">> \o reg
    [] h = "list_dynamodb" -> <<"DynamoDB Tables in ">> \o reg
    [] h = "list_rds" -> <<"RDS DB Instances in ">> \o reg
    [] h = "list_lambda" -> <<"Lambda Functions in ">> \o reg

T(tok) == <<tok>>

\* the headers each handler passes to print_table
Headers(h) ==
  CASE h = "list_ec2" ->
         <<T("InstanceId"), T("State"), T("Type"), T("AZ"), T("LaunchTime"), T("Name")>>
    [] h = "list_s3" -> <<T("BucketName"), T("Region"), T("CreationDate")>>
    [] h = "list_dynamodb" ->
         <<T("TableName"), T("Status"), T("ItemCount"), T("SizeBytes")>>
    [] h = "list_rds" ->
         <<T("Identifier"), T("Engine"), T("Class"), T("Status"), T("Endpoint"),
           T("Created")>>
    [] h = "list_lambda" ->
         <<T("FunctionName"), T("Runtime"), T("Version"), T("LastModified")>>

\* where each handler starts once its client exists
FirstCall(h) ==
  CASE h = "list_ec2" -> "ec2_page"
    [] h = "list_s3" -> "s3_list_buckets"
    [] h = "list_dynamodb" -> "ddb_page"
    [] h = "list_rds" -> "rds_page"
    [] h = "list_lambda" -> "lambda_page"

\* main's clauses with the catch-all moved to the front
MainExceptClausesCatchAllFirst ==
  << "Exception", "NoCredentialsError", "PartialCredentialsError",
     "EndpointConnectionError", "UnknownServiceError", "ClientError",
     "ParamValidationError", "KeyboardInterrupt" >>

\* the except clauses of main, in order: the class each names
MainExceptClauses ==
  << "NoCredentialsError", "PartialCredentialsError", "EndpointConnectionError",
     "UnknownServiceError", "ClientError", "ParamValidationError",
     "KeyboardInterrupt", "Exception" >>

\* the message and exit code of each clause's call of fail, for exception e
MainExceptBody(cls, e, svc, reg) ==
  CASE cls = "NoCredentialsError" ->
         [msg |-> <<"No AWS credentials",
                    " found. Configure credentials via environment variables or AWS config files.">>,
          code |-> 1]
    [] cls = "PartialCredentialsError" ->
         [msg |-> <<"Partial AWS credentials found. Please complete your AWS credential configuration.">>,
          code |-> 1]
    [] cls = "EndpointConnectionError" ->
         [msg |-> <<"Could not connect to endpoint for region '">> \o reg
                    \o <<"'. Is the region correct? Details: ">> \o e.str,
          code |-> 1]
    [] cls = "UnknownServiceError" ->
         [msg |-> <<"The AWS SDK does not recognize service '">> \o svc \o <<"'.">>,
          code |-> 1]
    [] cls = "ClientError" ->
         LET err == Get(e.response, "Error", EmptyDict)
         IN  [msg |-> <<"AWS API error (">> \o Cell(Get(err, "Code", S("Unknown")))
                        \o <<"): ">> \o Cell(Get(err, "Message", PyStr(e.str))),
              code |-> 1]
    [] cls = "ParamValidationError" ->
         [msg |-> <<"Invalid parameter(s): ">> \o e.str, code |-> 1]
    [] cls = "KeyboardInterrupt" -> [msg |-> <<"Interrupted by user.">>, code |-> 130]
    [] cls = "Exception" -> [msg |-> <<"Unexpected error: ">> \o e.str, code |-> 1]

\* the except clauses of get_session, in order
SessionExceptClauses == << "NoRegionError", "Exception" >>

SessionExceptBody(cls, e) ==
  CASE cls = "NoRegionError" -> [msg |-> e.str, code |-> 1]
    [] cls = "Exception" ->
         [msg |-> <<"Failed to initialize AWS session: ">> \o e.str, code |-> 1]

\* the indexes of the clauses of a try statement that match e
Matching(clauses, e) == {i \in 1..Len(clauses) : IsInstance(e, clauses[i])}
FirstMatch(clauses, e) ==
  LET m == Matching(clauses, e) IN clauses[CHOOSE i \in m : \A j \in m : i <= j]

\* The exit status of the interpreter when KeyboardInterrupt reaches the top
\* level uncaught: 1 before Python 3.8, death by SIGINT (reported as 130) since.
UncaughtInterruptStatus == {1, 130}

\* ------------------------------------------------------------------ state

VARIABLES
  pc,         \* where the run is: the next call that can block or fail
  args,       \* the parsed command line: service, region, profile
  service,    \* main's local: the normalised service key
  region,     \* main's local: the trimmed region
  handler,    \* the handler main invoked, "none" before
  morePages,  \* whether the paginator has another page (a NextToken)
  pageNo,     \* pages fetched so far
  nItems,     \* items listed so far
  pending,    \* the items of the current listing the per-item loop has left
  rows,       \* the handler's local: rows collected so far
  headers,    \* the headers argument of the print_table call
  stdout,     \* lines written to standard output
  stderr,     \* lines written to the error stream
  exitCode,   \* the process's exit status, once pc = "done"
  calls       \* every call that can block or fail (into boto3 and the two print
              \* calls of the handler), with what it returned or raised

vars == << pc, args, service, region, handler, morePages, pageNo, nItems, pending,
           rows, headers, stdout, stderr, exitCode, calls >>

UsEast1 == <<"us-east-1">>
EuWest1Padded == <<" ", "eu-west-1", "\n">>

\* The command lines the runs are drawn from: every supported key, in
\* several spellings, and three strings that are no key.
ArgInputs ==
  { [service |-> <<"E","C","2"," ">>, region |-> UsEast1, profile |-> PyNone],
    [service |-> <<" ","S","3">>, region |-> UsEast1, profile |-> PyNone],
    [service |-> KeyS3, region |-> EuWest1Padded, profile |-> S("dev")],
    [service |-> KeyDynamodb, region |-> EuWest1Padded, profile |-> S("dev")],
    [service |-> <<"R","d","s">>, region |-> UsEast1, profile |-> S("dev")],
    [service |-> <<"L","A","M","B","D","A","\n">>, region |-> EuWest1Padded,
     profile |-> PyNone],
    [service |-> <<"e","c","s">>, region |-> UsEast1, profile |-> PyNone],
    [service |-> <<"e"," ","c","2">>, region |-> UsEast1, profile |-> S("dev")],
    [service |-> <<>>, region |-> EuWest1Padded, profile |-> PyNone] }

NoArgs == [service |-> <<>>, region |-> <<>>, profile |-> PyNone]

Init ==
  /\ pc = "parse_args"
  /\ args = NoArgs
  /\ service = <<>>
  /\ region = <<>>
  /\ handler = "none"
  /\ morePages = FALSE
  /\ pageNo = 0
  /\ nItems = 0
  /\ pending = <<>>
  /\ rows = <<>>
  /\ headers = <<>>
  /\ stdout = <<>>
  /\ stderr = <<>>
  /\ exitCode = 0
  /\ calls = <<>>

Call(op, arg, value, exc) == [op |-> op, arg |-> arg, value |-> value, exc |-> exc]
Returned(op, arg, value) == Call(op, arg, value, NoException)
Raised(op, arg, e) == Call(op, arg, PyNone, e)

\* sys.exit(code)
Exit(code) == exitCode' = code /\ pc' = "done"

\* fail(msg, code): one line on the error stream, then sys.exit(code)
fail(msg, code) ==
  /\ stderr' = Append(stderr, <<"Error: ">> \o msg)
  /\ Exit(code)

TracebackLine == <<"Traceback (most recent call last):">>

\* an exception no except clause matches reaches the interpreter's top level
Uncaught(e) ==
  /\ stderr' = Append(stderr, TracebackLine)
  /\ \E status \in UncaughtInterruptStatus : Exit(status)

\* e propagates out of the handler into main's try statement (lines 209-229)
MainExcept(e) ==
  IF Matching(MainExceptClauses, e) = {} THEN Uncaught(e)
  ELSE LET b == MainExceptBody(FirstMatch(MainExceptClauses, e), e, service, region)
       IN  fail(b.msg, b.code)

\* e is raised by boto3.Session inside get_session's try statement (69-76)
SessionExcept(e) ==
  IF Matching(SessionExceptClauses, e) = {} THEN Uncaught(e)
  ELSE LET b == SessionExceptBody(FirstMatch(SessionExceptClauses, e), e)
       IN  fail(b.msg, b.code)

UsageLine == <<"usage: aws_list_resources.py [-h] [--profile PROFILE] service region">>

\* parser.parse_args(): the arguments, or argparse's own exit (2 on a bad
\* command line, 0 after -h)
parse_args ==
  /\ pc = "parse_args"
  /\ \/ /\ args' \in ArgInputs
        /\ pc' = "dispatch"
        /\ UNCHANGED << stdout, stderr, exitCode >>
     \/ /\ stderr' = stderr \o << UsageLine, <<"aws_list_resources.py: error: ">> >>
        /\ Exit(2)
        /\ UNCHANGED << args, stdout >>
     \/ /\ stdout' = Append(stdout, UsageLine)
        /\ Exit(0)
        /\ UNCHANGED << args, stderr >>
  /\ UNCHANGED << service, region, handler, morePages, pageNo, nItems, pending, rows,
                  headers, calls >>

\* main, lines 197-204: normalise, then look the service up
dispatch ==
  /\ pc = "dispatch"
  /\ service' = NormalizeService(args.service)
  /\ region' = NormalizeRegion(args.region)
  /\ IF service' \notin DOMAIN SUPPORTED
     THEN fail(<<"Unsupported service '">> \o service' \o <<"'. ">>
                 \o <<"Supported: ">> \o SupportedList, 1)
     ELSE pc' = "get_session" /\ UNCHANGED << stderr, exitCode >>
  /\ UNCHANGED << args, handler, morePages, pageNo, nItems, pending, rows, headers,
                  stdout, calls >>

\* get_session(profile, region), called at line 207, outside main's try
get_session ==
  /\ pc = "get_session"
  /\ \/ /\ calls' = Append(calls, Returned("boto3.Session", args.profile, PyNone))
        /\ pc' = "invoke"
        /\ UNCHANGED << stderr, exitCode >>
     \/ \E e \in SessionErrors :
          /\ calls' = Append(calls, Raised("boto3.Session", args.profile, e))
          /\ SessionExcept(e)
  /\ UNCHANGED << args, service, region, handler, morePages, pageNo, nItems, pending,
                  rows, headers, stdout >>

\* SUPPORTED[service](session, region), up to the handler's session.client(...)
\* and get_paginator(...)
invoke ==
  /\ pc = "invoke"
  /\ handler' = SUPPORTED[service]
  /\ \/ /\ calls' = Append(calls, Returned("session.client", PyStr(service), PyNone))
        /\ pc' = FirstCall(handler')
        /\ UNCHANGED << stderr, exitCode >>
     \/ \E e \in ProviderErrors :
          /\ calls' = Append(calls, Raised("session.client", PyStr(service), e))
          /\ MainExcept(e)
  /\ UNCHANGED << args, service, region, morePages, pageNo, nItems, pending, rows,
                  headers, stdout >>

\* the page bound: whether the paginator may report one more page
MayHaveMore(more) == more => pageNo + 1 < MaxPages

\* a loop that stops after its first page
NextAfterFirstPage(at, more) == "print_header"

\* "for page in paginator.paginate()": back for the next page while there is
\* one, on to print_header after the last
NextAfterPage(at, more) == IF more THEN at ELSE "print_header"

\* one iteration of "for page in paginator.paginate()" of a handler without
\* per-item calls: fetch the page, append its rows
PageStep(at, op, pages, pageRows) ==
  /\ pc = at
  /\ \/ \E page \in pages, more \in BOOLEAN :
          /\ MayHaveMore(more)
          /\ calls' = Append(calls, Returned(op, PyInt(pageNo), page))
          /\ rows' = rows \o pageRows[page]
          /\ nItems' = nItems + Len(pageRows[page])
          /\ pageNo' = pageNo + 1
          /\ morePages' = more
          /\ pc' = NextAfterPage(at, more)
          /\ UNCHANGED << stderr, exitCode >>
     \/ \E e \in ProviderErrors :
          /\ calls' = Append(calls, Raised(op, PyInt(pageNo), e))
          /\ MainExcept(e)
          /\ UNCHANGED << rows, nItems, pageNo, morePages >>
  /\ UNCHANGED << args, service, region, handler, pending, headers, stdout >>

list_ec2 ==
  PageStep("ec2_page", "describe_instances", Ec2Pages(MaxItems - nItems),
           [p \in Ec2Pages(MaxItems - nItems) |-> Ec2PageRows(p)])

list_rds ==
  PageStep("rds_page", "describe_db_instances", RdsPages(MaxItems - nItems),
           [p \in RdsPages(MaxItems - nItems) |-> RdsPageRows(p)])

list_lambda ==
  PageStep("lambda_page", "list_functions", LambdaPages(MaxItems - nItems),
           [p \in LambdaPages(MaxItems - nItems) |-> LambdaPageRows(p)])

\* list_s3, lines 108-111: the one list_buckets call
list_s3_buckets ==
  /\ pc = "s3_list_buckets"
  /\ \/ \E resp \in ListBucketsResponses(MaxItems) :
          /\ calls' = Append(calls, Returned("list_buckets", PyNone, resp))
          /\ pending' = Get(resp, "Buckets", EmptyList).elems
          /\ nItems' = Len(pending')
          /\ pc' = IF pending' = <<>> THEN "print_header" ELSE "s3_get_bucket_location"
          /\ UNCHANGED << stderr, exitCode >>
     \/ \E e \in ProviderErrors :
          /\ calls' = Append(calls, Raised("list_buckets", PyNone, e))
          /\ MainExcept(e)
          /\ UNCHANGED << pending, nItems >>
  /\ UNCHANGED << args, service, region, handler, morePages, pageNo, rows, headers,
                  stdout >>

\* what get_bucket_location(Bucket=name) may raise: a name that is not a
\* string fails the client's parameter validation
LocationErrors(name) ==
  IF name.py = "str" THEN ProviderErrors ELSE {ParamValidationError, KeyboardInterrupt}

\* list_s3, lines 112-124: one iteration of "for b in buckets"
list_s3_location ==
  /\ pc = "s3_get_bucket_location"
  /\ LET b == Head(pending)
         name == Get(b, "Name", PyNone)
         next == IF Tail(pending) = <<>> THEN "print_header" ELSE "s3_get_bucket_location"
     IN  \/ \E resp \in LocationResponses :
               /\ name.py = "str"
               /\ calls' = Append(calls, Returned("get_bucket_location", b, resp))
               /\ rows' = IF BucketRegion(resp) = PyStr(region)
                          THEN Append(rows, S3Row(b, BucketRegion(resp)))
                          ELSE rows
               /\ pending' = Tail(pending)
               /\ pc' = next
               /\ UNCHANGED << stderr, exitCode >>
         \/ \E e \in LocationErrors(name) :
               /\ calls' = Append(calls, Raised("get_bucket_location", b, e))
               /\ IF IsInstance(e, S3ItemExcept)
                  THEN /\ pending' = Tail(pending)
                       /\ pc' = next
                       /\ UNCHANGED << rows, stderr, exitCode >>
                  ELSE /\ MainExcept(e)
                       /\ UNCHANGED << rows, pending >>
  /\ UNCHANGED << args, service, region, handler, morePages, pageNo, nItems, headers,
                  stdout >>

\* list_dynamodb, lines 133-134: fetch one page of table names
list_dynamodb_tables ==
  /\ pc = "ddb_page"
  /\ \/ \E page \in ListTablesPages(nItems, MaxItems - nItems), more \in BOOLEAN :
          /\ MayHaveMore(more)
          /\ calls' = Append(calls, Returned("list_tables", PyInt(pageNo), page))
          /\ pending' = Get(page, "TableNames", EmptyList).elems
          /\ nItems' = nItems + Len(pending')
          /\ pageNo' = pageNo + 1
          /\ morePages' = more
          /\ pc' = IF pending' # <<>> THEN "ddb_describe_table"
                   ELSE NextAfterPage("ddb_page", more)
          /\ UNCHANGED << stderr, exitCode >>
     \/ \E e \in ProviderErrors :
          /\ calls' = Append(calls, Raised("list_tables", PyInt(pageNo), e))
          /\ MainExcept(e)
          /\ UNCHANGED << pending, nItems, pageNo, morePages >>
  /\ UNCHANGED << args, service, region, handler, rows, headers, stdout >>

\* list_dynamodb, lines 134-142: one iteration of "for table in ..."
list_dynamodb_describe ==
  /\ pc = "ddb_describe_table"
  /\ LET table == Head(pending)
         next == IF Tail(pending) # <<>> THEN "ddb_describe_table"
                 ELSE NextAfterPage("ddb_page", morePages)
     IN  \/ \E resp \in DescribeTableResponses :
               /\ calls' = Append(calls, Returned("describe_table", table, resp))
               /\ rows' = Append(rows, DdbRow(table, resp))
               /\ pending' = Tail(pending)
               /\ pc' = next
               /\ UNCHANGED << stderr, exitCode >>
         \/ \E e \in ProviderErrors :
               /\ calls' = Append(calls, Raised("describe_table", table, e))
               /\ IF IsInstance(e, DdbItemExcept)
                  THEN /\ rows' = Append(rows, DdbDeniedRow(table))
                       /\ pending' = Tail(pending)
                       /\ pc' = next
                       /\ UNCHANGED << stderr, exitCode >>
                  ELSE /\ MainExcept(e)
                       /\ UNCHANGED << rows, pending >>
  /\ UNCHANGED << args, service, region, handler, morePages, pageNo, nItems, headers,
                  stdout >>

\* the handler's print_header(f"... in {region}") call
print_header_call ==
  /\ pc = "print_header"
  /\ \/ /\ stdout' = stdout \o print_header(Title(handler, region))
        /\ calls' = Append(calls, Returned("print_header", PyNone, PyNone))
        /\ pc' = "print_table"
        /\ UNCHANGED << stderr, exitCode >>
     \/ \E e \in PrintErrors :
          /\ calls' = Append(calls, Raised("print_header", PyNone, e))
          /\ MainExcept(e)
          /\ UNCHANGED stdout
  /\ UNCHANGED << args, service, region, handler, morePages, pageNo, nItems, pending,
                  rows, headers >>

\* the handler's print_table(rows, [...]) call, its return, and main's return 0
print_table_call ==
  /\ pc = "print_table"
  /\ headers' = Headers(handler)
  /\ \/ LET out == print_table(rows, headers')
        IN  /\ stdout' = stdout \o out.lines
            /\ calls' = Append(calls, Call("print_table", PyNone, PyNone, out.exc))
            /\ IF out.exc = NoException
               THEN Exit(0) /\ UNCHANGED stderr
               ELSE MainExcept(out.exc)
     \/ \E e \in PrintErrors :
          /\ calls' = Append(calls, Raised("print_table", PyNone, e))
          /\ MainExcept(e)
          /\ UNCHANGED stdout
  /\ UNCHANGED << args, service, region, handler, morePages, pageNo, nItems, pending,
                  rows >>

Next ==
  \/ parse_args
  \/ dispatch
  \/ get_session
  \/ invoke
  \/ list_ec2
  \/ list_s3_buckets
  \/ list_s3_location
  \/ list_dynamodb_tables
  \/ list_dynamodb_describe
  \/ list_rds
  \/ list_lambda
  \/ print_header_call
  \/ print_table_call

Spec == Init /\ [][Next]_vars

\* ------------------------------------------- print_table on its own inputs

HeaderTexts == { T("ID"), T("Name") }
CellTexts == { <<>>, T("a"), <<"web", "-", "01">> }

\* header lists of at most MaxCols columns
HeaderInputs == SeqsUpTo(HeaderTexts, MaxCols)
\* lists of at most MaxRows rows, each as long as the headers
RowInputs(hs) == SeqsUpTo([1..Len(hs) -> CellTexts], MaxRows)

InitTable ==
  /\ pc = "render"
  /\ headers \in HeaderInputs
  /\ rows \in RowInputs(headers)
  /\ args = NoArgs
  /\ service = <<>>
  /\ region = <<>>
  /\ handler = "none"
  /\ morePages = FALSE
  /\ pageNo = 0
  /\ nItems = 0
  /\ pending = <<>>
  /\ stdout = <<>>
  /\ stderr = <<>>
  /\ exitCode = 0
  /\ calls = <<>>

\* print_table(rows, headers) called on the inputs drawn by InitTable
render ==
  /\ pc = "render"
  /\ stdout' = stdout \o print_table(rows, headers).lines
  /\ pc' = "rendered"
  /\ UNCHANGED << args, service, region, handler, morePages, pageNo, nItems, pending,
                  rows, headers, stderr, exitCode, calls >>

NextTable == render

SpecTable == InitTable /\ [][NextTable]_vars

\* ------------------------------------------------------------ properties

\* the command line has been parsed
Parsed == args \in ArgInputs
\* main is past its lookup of the service (lines 197-204)
Dispatched == Parsed /\ pc # "dispatch"

Last(seq) == seq[Len(seq)]

IsPrint(c) == c.op \in {"print_header", "print_table"}
\* the provider API calls: every call into boto3 after the session exists
ProviderCalls == SelectSeq(calls, LAMBDA c : ~IsPrint(c) /\ c.op # "boto3.Session")
CallsOf(op) == SelectSeq(calls, LAMBDA c : c.op = op)

\* the lines of the error stream that begin "Error: "
ErrorLines == SelectSeq(stderr, LAMBDA l : l # <<>> /\ l[1] = "Error: ")

FiveKeys == { <<"e","c","2">>, <<"s","3">>, <<"d","y","n","a","m","o","d","b">>,
              <<"r","d","s">>, <<"l","a","m","b","d","a">> }

HandlerOfKey(k) ==
  CASE k = <<"e","c","2">> -> "list_ec2"
    [] k = <<"s","3">> -> "list_s3"
    [] k = <<"d","y","n","a","m","o","d","b">> -> "list_dynamodb"
    [] k = <<"r","d","s">> -> "list_rds"
    [] k = <<"l","a","m","b","d","a">> -> "list_lambda"

KeysEnumerated ==
  <<"d","y","n","a","m","o","d","b">> \o <<", ">> \o <<"e","c","2">> \o <<", ">>
    \o <<"l","a","m","b","d","a">> \o <<", ">> \o <<"r","d","s">> \o <<", ">>
    \o <<"s","3">>

\* C1: once main has looked the service up, a service string whose
\* lowercased, trimmed form is none of the five keys has ended the run with
\* exit code 1 and one "Error:" line that enumerates the supported keys,
\* with no session created, no call into boto3 and no handler invoked; a
\* string whose form is one of the five keys is not rejected, and the only
\* handler ever invoked is the one mapped to that key.
C1_DispatchByKey ==
  Dispatched =>
    LET key == Strip(Lower(args.service))
    IN  IF key \notin FiveKeys
        THEN /\ pc = "done"
             /\ exitCode = 1
             /\ stderr = << <<"Error: ", "Unsupported service '">> \o key
                              \o <<"'. ", "Supported: ">> \o KeysEnumerated >>
             /\ calls = <<>>
             /\ handler = "none"
             /\ stdout = <<>>
        ELSE /\ calls = <<>> => pc = "get_session"
             /\ calls # <<>> => calls[1].op = "boto3.Session"
             /\ handler \in {"none", HandlerOfKey(key)}
             /\ (Len(calls) > 1 => handler = HandlerOfKey(key))

\* C1 witness: "e c2" (an inner space survives trimming) was rejected
C1_Witness ==
  /\ pc = "done"
  /\ args.service = <<"e"," ","c","2">>
  /\ exitCode = 1
  /\ calls = <<>>

\* the handler ran to its end: its print_table call returned
HandlerCompleted ==
  calls # <<>> /\ Last(calls).op = "print_table" /\ Last(calls).exc = NoException

IsInterrupt(c) == c.exc.type = "KeyboardInterrupt"
IsFailure(c) == c.exc # NoException /\ ~IsInterrupt(c)

\* a ClientError raised inside the per-item try of list_s3 or list_dynamodb
IsToleratedItemError(c) ==
  /\ c.op \in {"get_bucket_location", "describe_table"}
  /\ c.exc.type = "ClientError"

UnsupportedService == Dispatched /\ Strip(Lower(args.service)) \notin FiveKeys

\* C2, as claimed: a finished run that got its arguments has exit code 0, 1
\* or 130; if the handler completed the code is 0 and no "Error:" line was
\* written; and if any failure other than a user interrupt was raised at any
\* stage (dispatch, session, any provider call, rendering) of a run no user
\* interrupt hit, exactly one "Error: " line was written and the exit code
\* is 1.
C2_AnyFailureExitsOne ==
  (pc = "done" /\ Parsed) =>
    /\ exitCode \in {0, 1, 130}
    /\ HandlerCompleted => (exitCode = 0 /\ ErrorLines = <<>>)
    /\ ((UnsupportedService \/ \E i \in DOMAIN calls : IsFailure(calls[i]))
          /\ ~\E i \in DOMAIN calls : IsInterrupt(calls[i]))
         => (Len(ErrorLines) = 1 /\ exitCode = 1)

\* C2, amended: as above, except that the failures that end the run with one
\* "Error: " line and exit code 1 are those that propagate, that is every
\* failure other than a user interrupt and other than a ClientError raised by
\* the per-bucket location query of list_s3 or the per-table describe call of
\* list_dynamodb; those two are absorbed by the handler and write nothing to
\* the error stream.
C2_PropagatingFailureExitsOne ==
  (pc = "done" /\ Parsed) =>
    /\ exitCode \in {0, 1, 130}
    /\ HandlerCompleted => (exitCode = 0 /\ ErrorLines = <<>> /\ stderr = <<>>)
    /\ (UnsupportedService
          \/ \E i \in DOMAIN calls :
               IsFailure(calls[i]) /\ ~IsToleratedItemError(calls[i]))
         => (Len(ErrorLines) = 1 /\ Len(stderr) = 1 /\ exitCode = 1)
    /\ (\A i \in DOMAIN calls : IsToleratedItemError(calls[i]) \/ calls[i].exc = NoException)
         => (UnsupportedService \/ (HandlerCompleted /\ exitCode = 0))

\* C2 witness: a run of list_dynamodb that absorbed a ClientError and then
\* failed on a later call, ending with one "Error: " line and exit code 1
C2_Witness ==
  /\ pc = "done"
  /\ exitCode = 1
  /\ Len(ErrorLines) = 1
  /\ \E i \in DOMAIN calls : IsToleratedItemError(calls[i])
  /\ IsFailure(Last(calls)) /\ ~IsToleratedItemError(Last(calls))
  /\ Last(calls).op = "list_tables"

InterruptedLine == <<"Error: ", "Interrupted by user.">>

\* C3: a finished run in which a call made after dispatch (session
\* resolution, a provider call, a per-item query, a print) was interrupted
\* by the user has written "Error: Interrupted by user." to the error stream
\* and has exit code 130.
C3_InterruptTranslated ==
  (pc = "done" /\ \E i \in DOMAIN calls : IsInterrupt(calls[i])) =>
    /\ stderr = << InterruptedLine >>
    /\ exitCode = 130

NoCredentialsPrefix == <<"Error: ", "No AWS credentials">>

\* C6: a finished run in which a provider call raised the
\* missing-credentials error, whichever call it was (the per-bucket location
\* query and the per-table describe call included), has exit code 1 and one
\* line on the error stream, which begins "Error: No AWS credentials".
C6_NoCredentialsExitsOne ==
  (pc = "done" /\ \E i \in DOMAIN calls : calls[i].exc.type = "NoCredentialsError") =>
    /\ exitCode = 1
    /\ Len(stderr) = 1
    /\ Len(stderr[1]) >= 2
    /\ SubSeq(stderr[1], 1, 2) = NoCredentialsPrefix
    /\ Last(calls).exc.type = "NoCredentialsError"

\* C6 witness: list_s3 hit the missing credentials at a bucket's location
\* query, after an earlier bucket's query had been answered
C6_Witness ==
  /\ pc = "done"
  /\ handler = "list_s3"
  /\ Len(CallsOf("get_bucket_location")) = 2
  /\ Last(calls).op = "get_bucket_location"
  /\ Last(calls).exc.type = "NoCredentialsError"
  /\ exitCode = 1

\* the handler has left its listing loops: it is rendering, or has rendered
Rendering == pc \in {"print_header", "print_table"} \/ HandlerCompleted

\* the buckets the list_buckets call returned, in listing order
ListedBuckets ==
  LET lb == CallsOf("list_buckets")
  IN  IF lb = <<>> \/ lb[1].exc # NoException THEN <<>>
      ELSE Get(lb[1].value, "Buckets", EmptyList).elems

LocationCalls == CallsOf("get_bucket_location")

\* every exception raised so far was absorbed by a per-item try
OnlyToleratedErrors ==
  \A i \in DOMAIN calls : calls[i].exc = NoException \/ IsToleratedItemError(calls[i])

BucketNameOf(c) == Get(c.arg, "Name", PyNone)

\* C4, as claimed: in a finished run of list_s3 in which some bucket's
\* location query failed, for whatever reason, and nothing else failed or
\* was interrupted, every listed bucket was queried, nothing was written to
\* the error stream, the table was rendered and the exit code is 0.
C4_AnyLocationFailureSkipped ==
  ( /\ pc = "done"
    /\ handler = "list_s3"
    /\ \E k \in DOMAIN LocationCalls : IsFailure(LocationCalls[k])
    /\ \A i \in DOMAIN calls :
         calls[i].exc # NoException
           => (calls[i].op = "get_bucket_location" /\ IsFailure(calls[i])) )
  => /\ Len(LocationCalls) = Len(ListedBuckets)
     /\ stderr = <<>>
     /\ HandlerCompleted
     /\ exitCode = 0

\* C4, amended: in list_s3, a bucket whose location query raises a
\* ClientError (a denial or any other error response of the provider) is
\* omitted from the rows, nothing is written to the error stream for it, the
\* loop goes on to the next bucket (or to rendering after the last), every
\* listed bucket is queried in listing order, and a run whose only failures
\* are of that kind renders the table and ends with exit code 0.
C4_ClientErrorSkipped ==
  handler = "list_s3" =>
    /\ \A k \in DOMAIN LocationCalls :
         /\ k <= Len(ListedBuckets)
         /\ LocationCalls[k].arg = ListedBuckets[k]
    /\ \A nm \in {S("b1"), S("b2")} :
         ( /\ \E k \in DOMAIN LocationCalls : BucketNameOf(LocationCalls[k]) = nm
           /\ \A k \in DOMAIN LocationCalls :
                BucketNameOf(LocationCalls[k]) = nm
                  => IsToleratedItemError(LocationCalls[k]) )
         => \A j \in DOMAIN rows : rows[j][1] # nm.s
    /\ Len(rows) <= Cardinality({k \in DOMAIN LocationCalls :
                                   LocationCalls[k].exc = NoException})
    /\ OnlyToleratedErrors => stderr = <<>>
    /\ (calls # <<>> /\ IsToleratedItemError(Last(calls)))
         => /\ Len(LocationCalls) + Len(pending) = Len(ListedBuckets)
            /\ pc = IF pending = <<>> THEN "print_header" ELSE "s3_get_bucket_location"
    /\ Rendering => Len(LocationCalls) = Len(ListedBuckets)
    /\ (pc = "done" /\ OnlyToleratedErrors)
         => /\ HandlerCompleted
            /\ exitCode = 0
            /\ Len(stdout) >= 4
            /\ stdout[2] = <<"S3 Buckets in ">> \o Strip(args.region)

\* C4 witness: the first bucket's location query was denied, the second
\* bucket was still queried and listed, and the run ended with exit code 0
C4_Witness ==
  /\ pc = "done"
  /\ handler = "list_s3"
  /\ exitCode = 0
  /\ Len(LocationCalls) = 2
  /\ IsToleratedItemError(LocationCalls[1])
  /\ LocationCalls[2].exc = NoException
  /\ Len(rows) = 1
  /\ stderr = <<>>

\* the resolved location of an answered location query
ResolvedLocation(c) ==
  LET loc == Get(c.value, "LocationConstraint", PyNone)
  IN  IF loc = PyNone THEN <<"us-east-1">> ELSE loc.s

CreatedText(b) ==
  IF HasKey(b, "CreationDate")
  THEN <<"2","0","2","2","-","1","0","-","0","9"," ","0","8",":","0","7",":","0","6">>
  ELSE <<"None">>

RECURSIVE ExpectedS3Rows(_, _)
\* the rows of the buckets whose query was answered with the requested region
ExpectedS3Rows(locs, requested) ==
  IF locs = <<>> THEN <<>>
  ELSE LET c == Head(locs)
           rest == ExpectedS3Rows(Tail(locs), requested)
       IN  IF c.exc = NoException /\ ResolvedLocation(c) = requested
           THEN << <<BucketNameOf(c).s, ResolvedLocation(c), CreatedText(c.arg)>> >> \o rest
           ELSE rest

\* C7: when list_s3 renders, its rows are exactly the listed buckets whose
\* location query succeeded and whose resolved location (us-east-1 for a
\* bucket reporting no location constraint) equals the requested region, in
\* listing order; so a bucket with no location constraint is in the rows if
\* and only if the requested region is us-east-1.
C7_S3RegionFilter ==
  (handler = "list_s3" /\ Rendering) =>
    /\ [k \in DOMAIN LocationCalls |-> LocationCalls[k].arg] = ListedBuckets
    /\ rows = ExpectedS3Rows(LocationCalls, Strip(args.region))
    /\ \A k \in DOMAIN LocationCalls :
         (LocationCalls[k].exc = NoException
            /\ Get(LocationCalls[k].value, "LocationConstraint", PyNone) = PyNone)
         => ((\E j \in DOMAIN rows : rows[j][1] = BucketNameOf(LocationCalls[k]).s)
               <=> Strip(args.region) = <<"us-east-1">>)
    /\ (HandlerCompleted /\ rows # <<>>) =>
         /\ Len(stdout) = 5 + Len(rows)
         /\ \A j \in DOMAIN rows : stdout[5 + j][1] = rows[j][1][1]

\* C7 witness: us-east-1 was requested; of two buckets the one reporting no
\* location constraint is listed and the one located elsewhere is not
C7_Witness ==
  /\ handler = "list_s3"
  /\ HandlerCompleted
  /\ Strip(args.region) = <<"us-east-1">>
  /\ Len(LocationCalls) = 2
  /\ LocationCalls[1].exc = NoException
  /\ LocationCalls[2].exc = NoException
  /\ Get(LocationCalls[1].value, "LocationConstraint", PyNone) = S("eu-west-1")
  /\ Get(LocationCalls[2].value, "LocationConstraint", PyNone) = PyNone
  /\ Len(rows) = 1
  /\ rows[1][2] = <<"us-east-1">>

\* the table names the list_tables pages returned, in listing order
ListedTables ==
  LET lt == SelectSeq(CallsOf("list_tables"), LAMBDA c : c.exc = NoException)
  IN  Concat([k \in DOMAIN lt |-> Get(lt[k].value, "TableNames", EmptyList).elems])

DescribeCalls == CallsOf("describe_table")

\* the provider denied the call
IsDenied(c) ==
  /\ c.exc.type = "ClientError"
  /\ Get(Get(c.exc.response, "Error", EmptyDict), "Code", PyNone)
       = S("AccessDeniedException")

AccessDeniedRow(name) == << name.s, <<"(access denied)">>, <<>>, <<>> >>

\* the row of a table from its describe_table response
DescribedRow(name, resp) ==
  IF HasKey(Get(resp, "Table", EmptyDict), "TableStatus")
  THEN << name.s, <<"ACTIVE">>, <<"1", "2">>, <<"3", "4", "0">> >>
  ELSE << name.s, <<>>, <<>>, <<>> >>

\* C5, as claimed: when list_dynamodb renders, there is exactly one row per
\* listed table name, in listing order; the row of a table whose describe
\* call was denied is [name, "(access denied)", "", ""], and every other
\* table was described and its row holds its status, item count and size.
C5_DeniedRowOnly ==
  (handler = "list_dynamodb" /\ Rendering) =>
    /\ Len(rows) = Len(ListedTables)
    /\ Len(DescribeCalls) = Len(ListedTables)
    /\ \A k \in DOMAIN DescribeCalls :
         /\ DescribeCalls[k].arg = ListedTables[k]
         /\ IF IsDenied(DescribeCalls[k])
            THEN rows[k] = AccessDeniedRow(ListedTables[k])
            ELSE /\ DescribeCalls[k].exc = NoException
                 /\ rows[k] = DescribedRow(ListedTables[k], DescribeCalls[k].value)

\* C5, amended: when list_dynamodb renders, there is exactly one row per
\* listed table name, in listing order; the row of a table whose describe
\* call raised a ClientError (a denial or any other error response of the
\* provider) is [name, "(access denied)", "", ""], the row of every table
\* whose describe call returned holds its status, item count and size; and
\* after such a ClientError the handler goes on to the next table, the next
\* page, or rendering after the last.
C5_ClientErrorRow ==
  handler = "list_dynamodb" =>
    /\ \A k \in DOMAIN DescribeCalls :
         /\ k <= Len(ListedTables)
         /\ DescribeCalls[k].arg = ListedTables[k]
         /\ (DescribeCalls[k].exc = NoException \/ IsToleratedItemError(DescribeCalls[k]))
              => /\ k <= Len(rows)
                 /\ rows[k] = IF DescribeCalls[k].exc.type = "ClientError"
                              THEN AccessDeniedRow(ListedTables[k])
                              ELSE DescribedRow(ListedTables[k], DescribeCalls[k].value)
    /\ Len(rows) <= Len(DescribeCalls)
    /\ (calls # <<>> /\ IsToleratedItemError(Last(calls)))
         => /\ Len(DescribeCalls) + Len(pending) = Len(ListedTables)
            /\ pc = IF pending # <<>> THEN "ddb_describe_table"
                    ELSE IF morePages THEN "ddb_page" ELSE "print_header"
    /\ Rendering =>
         /\ Len(rows) = Len(ListedTables)
         /\ Len(DescribeCalls) = Len(ListedTables)
         /\ ~morePages

\* C5 witness: the table of the first page was answered with an error
\* response that is no denial, the table of the second page was described,
\* and both are in the rendered rows
C5_Witness ==
  /\ handler = "list_dynamodb"
  /\ HandlerCompleted
  /\ Len(CallsOf("list_tables")) = 2
  /\ Len(DescribeCalls) = 2
  /\ IsToleratedItemError(DescribeCalls[1])
  /\ DescribeCalls[1].exc.response = NotFoundResponse
  /\ DescribeCalls[2].exc = NoException
  /\ rows[1][2] = <<"(access denied)">>
  /\ rows[2][2] = <<"ACTIVE">>

\* the greatest element of a non-empty set of numbers
MaxOf(set) == CHOOSE m \in set : \A x \in set : m >= x

\* the width column i must have: the longest of its header and its cells
ExpectedWidth(i) ==
  MaxOf({TextLen(headers[i])} \cup {TextLen(rows[k][i]) : k \in DOMAIN rows})

RECURSIVE WidthSum(_)
\* the widths of columns 1..n added up
WidthSum(n) == IF n = 0 THEN 0 ELSE WidthSum(n - 1) + ExpectedWidth(n)

\* the length of every line of the table: the columns and their separators
ExpectedLineLen == WidthSum(Len(headers)) + 3 * Max(0, Len(headers) - 1)

\* where the separator after column i starts, counted in characters from 0
ExpectedSepOffset(i) == WidthSum(i) + 3 * (i - 1)

\* the characters before token t of a line
OffsetOf(line, t) == TextLen(SubSeq(line, 1, t - 1))

\* the separators of a line sit exactly between the columns
SeparatorsAligned(line, sep) ==
  {OffsetOf(line, t) : t \in {u \in DOMAIN line : line[u] = sep}}
    = {ExpectedSepOffset(i) : i \in 1..(Len(headers) - 1)}

\* the cells of a line, its padding removed, joined by its separators
Unpadded(line) == SelectSeq(line, LAMBDA tok : tok # " ")

RECURSIVE Interleaved(_)
Interleaved(cells) ==
  IF cells = <<>> THEN <<>>
  ELSE IF Len(cells) = 1 THEN cells[1]
  ELSE cells[1] \o <<" | ">> \o Interleaved(Tail(cells))

\* padding follows a cell, never precedes one
LeftJustified(line) ==
  \A t \in DOMAIN line :
    (line[t] = " " /\ t < Len(line)) => line[t + 1] \in {" ", " | "}

CellLine(line, cells) ==
  /\ TextLen(line) = ExpectedLineLen
  /\ Unpadded(line) = Interleaved(cells)
  /\ SeparatorsAligned(line, " | ")
  /\ LeftJustified(line)

\* what print_table has printed, for the rows and headers it was given
C8_Output ==
  pc = "rendered" =>
    IF rows = <<>> THEN stdout = << <<"(no resources found)">> >>
    ELSE /\ Len(stdout) = 2 + Len(rows)
         /\ CellLine(stdout[1], headers)
         /\ TextLen(stdout[2]) = ExpectedLineLen
         /\ SeparatorsAligned(stdout[2], "-+-")
         /\ \A t \in DOMAIN stdout[2] : stdout[2][t] \in {"-", "-+-"}
         /\ \A k \in DOMAIN rows : CellLine(stdout[2 + k], rows[k])

\* C8: print_table, given rows as long as the headers, prints the single
\* line "(no resources found)" when there are no rows; otherwise a header
\* line, a separator line and one line per row in input order, every column
\* exactly as wide as the longest of its header and its cells, the cells
\* left-justified in header order; and it leaves rows and headers as they
\* were.
C8_PrintTable ==
  /\ []C8_Output
  /\ [][rows' = rows /\ headers' = headers]_vars

\* C8 witness: a two-column table whose first column is as wide as a cell
\* and whose second is as wide as its header
C8_Witness ==
  /\ pc = "rendered"
  /\ headers = << <<"ID">>, <<"Name">> >>
  /\ rows = << << <<"web", "-", "01">>, <<"a">> >>, << <<>>, <<>> >> >>
  /\ stdout[1] = <<"ID", " ", " ", " ", " ", " | ", "Name">>

\* the listing operation of each handler
ListingOp(h) ==
  CASE h = "list_ec2" -> "describe_instances"
    [] h = "list_s3" -> "list_buckets"
    [] h = "list_dynamodb" -> "list_tables"
    [] h = "list_rds" -> "describe_db_instances"
    [] h = "list_lambda" -> "list_functions"

\* a provider call that raised and was not absorbed by a per-item try
Propagated(c) == c.exc # NoException /\ ~IsToleratedItemError(c)

\* C9: a handler writes to standard output only once its listing is over:
\* the listing was called and its last page has no successor, no per-item
\* query is left, every provider call precedes the first print, the pages
\* were fetched one after another, and a run in which a provider call raised
\* an error that propagates has written nothing to standard output.
C9_OutputAfterListing ==
  handler # "none" =>
    /\ stdout # <<>> =>
         /\ pc \in {"print_table", "done"}
         /\ ~morePages
         /\ pending = <<>>
         /\ CallsOf(ListingOp(handler)) # <<>>
         /\ \A i \in DOMAIN ProviderCalls : ~Propagated(ProviderCalls[i])
    /\ \A i, j \in DOMAIN calls : (i < j /\ IsPrint(calls[i])) => IsPrint(calls[j])
    /\ \A k \in DOMAIN CallsOf(ListingOp(handler)) :
         handler # "list_s3" => CallsOf(ListingOp(handler))[k].arg = PyInt(k - 1)
    /\ (\E i \in DOMAIN ProviderCalls : Propagated(ProviderCalls[i])) =>
         (stdout = <<>> /\ pc = "done")

\* C9 witness: list_ec2 fetched two pages and then printed its header
C9_Witness ==
  /\ handler = "list_ec2"
  /\ Len(CallsOf("describe_instances")) = 2
  /\ pc = "print_table"
  /\ Len(stdout) = 3
  /\ Len(rows) = 2

ExpectedColumns(h) ==
  CASE h = "list_ec2" -> 6
    [] h = "list_s3" -> 3
    [] h = "list_dynamodb" -> 4
    [] h = "list_rds" -> 6
    [] h = "list_lambda" -> 4

\* C10: every row a handler collects, and so every row it passes to
\* print_table, is as long as the headers it passes with it: 6 for ec2, 3
\* for s3, 4 for dynamodb, 6 for rds, 4 for lambda.
C10_RowLength ==
  handler # "none" =>
    /\ Len(Headers(handler)) = ExpectedColumns(handler)
    /\ \A k \in DOMAIN rows : Len(rows[k]) = ExpectedColumns(handler)
    /\ HandlerCompleted => headers = Headers(handler)

\* C10 witness: list_dynamodb passes an "(access denied)" row and a row of a
\* described table without fields to print_table
C10_Witness ==
  /\ handler = "list_dynamodb"
  /\ pc = "print_table"
  /\ Len(rows) = 2
  /\ rows[1][2] = <<"(access denied)">>
  /\ rows[2][2] = <<>>

====
